---- MODULE Spec2Model ----
(***************************************************************************)
(* A model of src/app.py, the Streamlit page "Solar Power Generation       *)
(* Predictor".  Streamlit executes the script from its first line to its   *)
(* last on every user interaction; the only things that outlive one run    *)
(* are st.session_state (per session), the widget values kept by the       *)
(* front end, and the st.cache_resource cache of load_artifacts.           *)
(*                                                                         *)
(* Units: widget values are integers in hundredths of the widget's unit    *)
(* (distance-to-solar-noon 0.50 is 50, temperature 70 is 7000); a          *)
(* prediction is an integer in thousandths of a power unit (1999.999 is    *)
(* 1999999, 2000.0 is 2000000).  Optional values are sequences of length   *)
(* at most one: <<>> is Python's None (or an unbound name), <<v>> is v.    *)
(***************************************************************************)
EXTENDS Integers, Sequences, FiniteSets, TLC

\* How many of the nine number inputs (the first ones of FEATURES) the user
\* of the model edits; the others stay at their defaults.
NumAdjustable == 3

None == <<>>

\* app.py 51-61
FEATURES ==
    << "distance-to-solar-noon", "temperature", "wind-direction", "wind-speed",
       "sky-cover", "visibility", "humidity", "average-wind-speed-(period)",
       "average-pressure-(period)" >>

NumFeatures == Len(FEATURES)

FeatureNames == { FEATURES[i] : i \in 1..NumFeatures }

\* app.py 108-116: the keys of the dict literal, in the order written there.
SidebarKeys ==
    << "distance-to-solar-noon", "temperature", "wind-direction", "wind-speed",
       "sky-cover", "visibility", "humidity", "average-wind-speed-(period)",
       "average-pressure-(period)" >>

\* app.py 108-116: the third and the second argument of each number_input
\* (value, max_value), in hundredths.
WidgetDefault == << 50, 7000, 9000, 500, 2000, 1000, 5000, 500, 2980 >>
WidgetMax == << 100, 15000, 36000, 10000, 10000, 2000, 10000, 10000, 4000 >>

KeyIndex(k) == CHOOSE i \in 1..Len(SidebarKeys) : SidebarKeys[i] = k

\* The values the user of the model types into input number i.
Choices(i) ==
    IF i <= NumAdjustable THEN {WidgetDefault[i], WidgetMax[i]} ELSE {WidgetDefault[i]}

\* The two pickled objects the operator owns.
\*   identity / const2500 : the mocks of the spec's test
\*   standard / linear    : a fitted StandardScaler and a regression model
\*   strict_*             : the same, raising on an input they reject
ArtifactSets ==
    { [scaler |-> "identity", model |-> "const2500"],
      [scaler |-> "standard", model |-> "linear"],
      [scaler |-> "strict_standard", model |-> "linear"],
      [scaler |-> "standard", model |-> "strict_linear"] }

ModelPath == "best_model.pkl"
ScalerPath == "scaler.pkl"

VARIABLES
    artifacts,      \* what the two .pkl files hold, [scaler, model] (never changes)
    exists,         \* the .pkl files present in the working directory
    cache,          \* st.cache_resource of load_artifacts: None or <<[model, scaler]>>
    widgets,        \* the values of the nine number inputs kept by the front end
    session_state,  \* st.session_state: a mapping, with or without the key "pred"
    pc,             \* the script's position; "idle" between runs
    clicked,        \* the button whose click started this run: "none", "predict", "reset"
    model, scaler,  \* the script's globals of line 46 (None while unbound)
    user_vals,      \* the script's global of line 120 (None while unbound)
    row, X_scaled,  \* the handler's locals of lines 130 and 133
    pred,           \* the script's global pred of lines 136 and 202
    card,           \* what status_container shows: <<>>, <<"No prediction yet">>, <<level, color>>
    success,        \* the st.success line of line 140: None or <<value>>
    viz,            \* the visualization section: <<>> or <<level, color>>
    chart,          \* the bar of line 210: None or <<value>>
    page,           \* the interactive widgets this run has drawn
    outcome,        \* how the run ended: "running", "complete", "stopped", "exception"
                    \* ("none" before the first run)
    error,          \* the message or exception the run ended with ("" for none)
    calls,          \* this run's calls of scaler.transform and model.predict
    predAtStart,    \* history: the stored prediction when this run started
    lastSuccess,    \* history: the value of the latest successful Predict since the last Reset
    memo            \* history: one earlier successful predict, <<[in, out]>>

vars ==
    << artifacts, exists, cache, widgets, session_state, pc, clicked, model, scaler,
       user_vals, row, X_scaled, pred, card, success, viz, chart, page, outcome,
       error, calls, predAtStart, lastSuccess, memo >>

\* Groups of variables for the UNCHANGED clauses.
environment == << artifacts, exists, widgets, clicked >>
history == << predAtStart, lastSuccess, memo >>
globals == << model, scaler, user_vals >>
locals == << row, X_scaled, pred >>
display == << card, success, viz, chart, page >>
ending == << outcome, error >>

----
\* Pure parts of the script

\* The thresholds taken inclusively: 2000.0 would be Low and 4000.0 Moderate.
power_level_inclusive(p) ==
    IF p <= 2000000 THEN << "Low", "#ff6b6b" >>
    ELSE IF p <= 4000000 THEN << "Moderate", "#f4c542" >>
    ELSE << "High", "#4cd137" >>

\* app.py 17-23
power_level_and_color(p) ==
    IF p < 2000000 THEN << "Low", "#ff6b6b" >>
    ELSE IF p < 4000000 THEN << "Moderate", "#f4c542" >>
    ELSE << "High", "#4cd137" >>

\* app.py 42-43: joblib.load(path), of a file that exists
joblib_load(path) ==
    IF path = ModelPath THEN artifacts.model ELSE artifacts.scaler

\* The test of line 39 with "and" for "or": it stops only when both files are absent.
artifacts_missing_both(present) ==
    ModelPath \notin present /\ ScalerPath \notin present

\* app.py 39: the test that decides between st.stop() and joblib.load
artifacts_missing(present) ==
    ModelPath \notin present \/ ScalerPath \notin present

\* app.py 106-118: the dict built from the nine number inputs
sidebar_inputs ==
    [ k \in { SidebarKeys[i] : i \in 1..Len(SidebarKeys) } |-> widgets[KeyIndex(k)] ]

\* The row built in the dictionary's sorted key order instead of FEATURES order.
build_row_sorted(vals) ==
    << vals["average-pressure-(period)"], vals["average-wind-speed-(period)"],
       vals["distance-to-solar-noon"], vals["humidity"], vals["sky-cover"],
       vals["temperature"], vals["visibility"], vals["wind-direction"],
       vals["wind-speed"] >>

\* app.py 130: [user_vals[f] for f in FEATURES]
build_row(vals) ==
    [ i \in 1..NumFeatures |-> vals[FEATURES[i]] ]

\* app.py 130: user_vals[f] raises KeyError for a key the dict lacks
row_key_error(vals) ==
    \E i \in 1..NumFeatures : FEATURES[i] \notin DOMAIN vals

\* app.py 133: scaler.transform(row).  The fitted scaler has mean WidgetDefault
\* and scale WidgetMax - WidgetDefault in every column.
scaler_raises(s, r) ==
    s = "strict_standard" /\ r[3] > WidgetDefault[3]

scaler_transform(s, r) ==
    IF s = "identity" THEN r
    ELSE [ i \in 1..Len(r) |->
             (r[i] - WidgetDefault[i]) \div (WidgetMax[i] - WidgetDefault[i]) ]

\* app.py 136: model.predict(X_scaled)[0]
model_raises(m, X) ==
    m = "strict_linear" /\ X[3] > 0

model_predict(m, X) ==
    IF m = "const2500" THEN 2500000
    ELSE 1999999 + X[1] + 2000000 * X[2]

\* The value of line 136 with the stored prediction added to it: a result that
\* depends on the calls made before.
predicted_value_accumulating(m, X) ==
    model_predict(m, X) + (IF "pred" \in DOMAIN session_state /\ session_state.pred # <<>>
                             THEN session_state.pred[1] ELSE 0)

\* app.py 136: float(model.predict(X_scaled)[0]); float() of the model's number
\* keeps its value.
predicted_value(m, X) ==
    model_predict(m, X)

\* app.py 75-99: what the top card shows for a stored prediction p
status_card(p) ==
    IF p # None THEN power_level_and_color(p[1]) ELSE << "No prediction yet" >>

\* The stored prediction: st.session_state.pred, None while the key is absent.
Stored ==
    IF "pred" \in DOMAIN session_state THEN session_state.pred ELSE None

NoCalls == [ transform |-> 0, predict |-> 0 ]

----
Init ==
    /\ artifacts \in ArtifactSets
    /\ exists \in SUBSET {ModelPath, ScalerPath}
    /\ cache = None
    /\ widgets = WidgetDefault
    /\ session_state = [ k \in {} |-> None ]
    /\ pc = "idle"
    /\ clicked = "none"
    /\ model = None /\ scaler = None
    /\ user_vals = None
    /\ row = None /\ X_scaled = None /\ pred = None
    /\ card = <<>> /\ success = None /\ viz = <<>> /\ chart = None
    /\ page = {}
    /\ outcome = "none"
    /\ error = ""
    /\ calls = NoCalls
    /\ predAtStart = None
    /\ lastSuccess = None
    /\ memo = None

\* A new execution of the script: every script variable is unbound again and
\* the page is drawn from scratch.
BeginRun(button) ==
    /\ pc' = "load"
    /\ clicked' = button
    /\ model' = None /\ scaler' = None
    /\ user_vals' = None
    /\ row' = None /\ X_scaled' = None /\ pred' = None
    /\ card' = <<>> /\ success' = None /\ viz' = <<>> /\ chart' = None
    /\ page' = {}
    /\ outcome' = "running"
    /\ error' = ""
    /\ calls' = NoCalls

\* The user opens the page or presses "Rerun".
Rerun ==
    /\ pc = "idle"
    /\ BeginRun("none")
    /\ predAtStart' = Stored
    /\ UNCHANGED << artifacts, exists, cache, widgets, session_state, lastSuccess, memo >>

\* The user edits one number input (app.py 108-116); the script reruns.
ChangeInput ==
    /\ pc = "idle"
    /\ "inputs" \in page
    /\ \E i \in 1..NumFeatures : \E v \in Choices(i) :
         /\ v # widgets[i]
         /\ widgets' = [widgets EXCEPT ![i] = v]
    /\ BeginRun("none")
    /\ predAtStart' = Stored
    /\ UNCHANGED << artifacts, exists, cache, session_state, lastSuccess, memo >>

\* The user clicks "Predict" (app.py 128).
ClickPredict ==
    /\ pc = "idle"
    /\ "predict" \in page
    /\ BeginRun("predict")
    /\ predAtStart' = Stored
    /\ UNCHANGED << artifacts, exists, cache, widgets, session_state, lastSuccess, memo >>

\* The user clicks "Reset to Defaults" (app.py 154).
ClickReset ==
    /\ pc = "idle"
    /\ "reset" \in page
    /\ BeginRun("reset")
    /\ predAtStart' = Stored
    /\ UNCHANGED << artifacts, exists, cache, widgets, session_state, lastSuccess, memo >>

\* The operator puts a missing .pkl file in place (the st.error text asks for it).
UploadArtifact ==
    /\ pc = "idle"
    /\ \E f \in {ModelPath, ScalerPath} \ exists : exists' = exists \cup {f}
    /\ UNCHANGED << artifacts, cache, widgets, session_state, pc, clicked, model, scaler,
                    user_vals, row, X_scaled, pred, card, success, viz, chart, page,
                    outcome, error, calls, predAtStart, lastSuccess, memo >>

\* The operator removes a .pkl file; objects already cached stay cached.
DeleteArtifact ==
    /\ pc = "idle"
    /\ \E f \in exists : exists' = exists \ {f}
    /\ UNCHANGED << artifacts, cache, widgets, session_state, pc, clicked, model, scaler,
                    user_vals, row, X_scaled, pred, card, success, viz, chart, page,
                    outcome, error, calls, predAtStart, lastSuccess, memo >>

----
\* The script, statement by statement.  A step that raises ends the run: the
\* script runner shows the exception and nothing below the raising line runs.

Raise(name) ==
    /\ pc' = "idle"
    /\ outcome' = "exception"
    /\ error' = name

\* app.py 35-46: model, scaler = load_artifacts()
load_artifacts ==
    /\ pc = "load"
    /\ IF cache # None
         THEN \* st.cache_resource returns the objects of the first successful call
              /\ model' = << cache[1].model >>
              /\ scaler' = << cache[1].scaler >>
              /\ pc' = "session"
              /\ UNCHANGED << cache, ending >>
         ELSE IF artifacts_missing(exists)
         THEN \* st.error(...); st.stop()
              /\ pc' = "idle"
              /\ outcome' = "stopped"
              /\ error' = "Model or scaler file missing"
              /\ UNCHANGED << cache, model, scaler >>
         ELSE IF ModelPath \notin exists \/ ScalerPath \notin exists
         THEN \* joblib.load of a file that is not there
              /\ Raise("FileNotFoundError")
              /\ UNCHANGED << cache, model, scaler >>
         ELSE /\ cache' = << [model |-> joblib_load(ModelPath),
                              scaler |-> joblib_load(ScalerPath)] >>
              /\ model' = << joblib_load(ModelPath) >>
              /\ scaler' = << joblib_load(ScalerPath) >>
              /\ pc' = "session"
              /\ UNCHANGED ending
    /\ UNCHANGED << environment, history, session_state, user_vals, locals, display, calls >>

\* Lines 66-67 without the "if": every run starts with pred = None.
init_session_state_always ==
    /\ pc = "session"
    /\ session_state' = [pred |-> None]
    /\ pc' = "status"
    /\ UNCHANGED << environment, history, cache, globals, locals, display, ending, calls >>

\* app.py 66-67
init_session_state ==
    /\ pc = "session"
    /\ session_state' =
         IF "pred" \notin DOMAIN session_state THEN [pred |-> None] ELSE session_state
    /\ pc' = "status"
    /\ UNCHANGED << environment, history, cache, globals, locals, display, ending, calls >>

\* app.py 72-99
status_container ==
    /\ pc = "status"
    /\ card' = status_card(session_state.pred)
    /\ pc' = "sidebar"
    /\ UNCHANGED << environment, history, cache, session_state, globals, locals,
                    success, viz, chart, page, ending, calls >>

\* app.py 104-120: user_vals = sidebar_inputs()
read_sidebar ==
    /\ pc = "sidebar"
    /\ user_vals' = << sidebar_inputs >>
    /\ page' = page \cup {"inputs"}
    /\ pc' = "predict_button"
    /\ UNCHANGED << environment, history, cache, session_state, model, scaler, locals,
                    card, success, viz, chart, ending, calls >>

\* app.py 128: if st.button("Predict")
predict_button ==
    /\ pc = "predict_button"
    /\ page' = page \cup {"predict"}
    /\ pc' = IF clicked = "predict" THEN "assemble" ELSE "reset_button"
    /\ UNCHANGED << environment, history, cache, session_state, globals, locals,
                    card, success, viz, chart, ending, calls >>

\* app.py 130: row = pd.DataFrame([[user_vals[f] for f in FEATURES]], columns=FEATURES)
assemble_row ==
    /\ pc = "assemble"
    /\ IF row_key_error(user_vals[1])
         THEN /\ Raise("KeyError")
              /\ UNCHANGED row
         ELSE /\ row' = << build_row(user_vals[1]) >>
              /\ pc' = "scale"
              /\ UNCHANGED ending
    /\ UNCHANGED << environment, history, cache, session_state, globals, X_scaled, pred,
                    display, calls >>

\* Line 133 calling scaler.fit_transform(row): the cached scaler is refitted on
\* the one row it is given.
scale_row_refitting ==
    /\ pc = "scale"
    /\ calls' = [calls EXCEPT !.transform = @ + 1]
    /\ cache' = << [cache[1] EXCEPT !.scaler = "refitted"] >>
    /\ scaler' = << "refitted" >>
    /\ X_scaled' = << [ i \in 1..Len(row[1]) |-> 0 ] >>
    /\ pc' = "infer"
    /\ UNCHANGED << environment, history, session_state, model, user_vals, row, pred,
                    display, ending >>

\* app.py 133: X_scaled = scaler.transform(row)
scale_row ==
    /\ pc = "scale"
    /\ calls' = [calls EXCEPT !.transform = @ + 1]
    /\ IF scaler_raises(scaler[1], row[1])
         THEN /\ Raise("scaler.transform raised")
              /\ UNCHANGED X_scaled
         ELSE /\ X_scaled' = << scaler_transform(scaler[1], row[1]) >>
              /\ pc' = "infer"
              /\ UNCHANGED ending
    /\ UNCHANGED << environment, history, cache, session_state, globals, row, pred, display >>

\* Line 136 inside a try/except that stores 0 when the model raises.
infer_swallowing ==
    /\ pc = "infer"
    /\ calls' = [calls EXCEPT !.predict = @ + 1]
    /\ pred' = IF model_raises(model[1], X_scaled[1])
                 THEN << 0 >>
                 ELSE << model_predict(model[1], X_scaled[1]) >>
    /\ pc' = "store"
    /\ UNCHANGED << environment, history, cache, session_state, globals, row, X_scaled,
                    display, ending >>

\* app.py 136: pred = float(model.predict(X_scaled)[0])
infer ==
    /\ pc = "infer"
    /\ calls' = [calls EXCEPT !.predict = @ + 1]
    /\ IF model_raises(model[1], X_scaled[1])
         THEN /\ Raise("model.predict raised")
              /\ UNCHANGED pred
         ELSE /\ pred' = << predicted_value(model[1], X_scaled[1]) >>
              /\ pc' = "store"
              /\ UNCHANGED ending
    /\ UNCHANGED << environment, history, cache, session_state, globals, row, X_scaled,
                    display >>

\* app.py 137-151: st.session_state.pred = pred, then the outputs of the handler.
\* The history variable memo may keep this call to compare a later one with.
store_prediction ==
    /\ pc = "store"
    /\ session_state' = [session_state EXCEPT !.pred = pred]
    /\ success' = pred
    /\ lastSuccess' = pred
    /\ \/ memo' = memo
       \/ memo' = << [in |-> user_vals[1], out |-> pred[1]] >>
    /\ pc' = "reset_button"
    /\ UNCHANGED << environment, cache, globals, locals, card, viz, chart, page,
                    ending, calls, predAtStart >>

\* Lines 153-155 without the st.rerun() of line 156: the script goes on below.
reset_button_no_rerun ==
    /\ pc = "reset_button"
    /\ page' = page \cup {"reset"}
    /\ IF clicked = "reset"
         THEN /\ session_state' = [session_state EXCEPT !.pred = <<>>]
              /\ lastSuccess' = <<>>
         ELSE UNCHANGED << session_state, lastSuccess >>
    /\ pc' = "visualization"
    /\ UNCHANGED << environment, cache, globals, locals, card, success, viz, chart,
                    ending, calls, predAtStart, memo >>

\* Lines 153-155 also putting the inputs back to their defaults, as the button's
\* label says.
reset_button_defaults ==
    /\ pc = "reset_button"
    /\ page' = page \cup {"reset"}
    /\ IF clicked = "reset"
         THEN /\ session_state' = [session_state EXCEPT !.pred = <<>>]
              /\ lastSuccess' = <<>>
              /\ widgets' = WidgetDefault
              /\ pc' = "rerun"
         ELSE /\ pc' = "visualization"
              /\ UNCHANGED << session_state, lastSuccess, widgets >>
    /\ UNCHANGED << artifacts, exists, clicked, cache, globals, locals, card, success,
                    viz, chart, ending, calls, predAtStart, memo >>

\* app.py 153-155: if st.button("Reset to Defaults"): st.session_state.pred = None
reset_button ==
    /\ pc = "reset_button"
    /\ page' = page \cup {"reset"}
    /\ IF clicked = "reset"
         THEN /\ session_state' = [session_state EXCEPT !.pred = None]
              /\ lastSuccess' = None
              /\ pc' = "rerun"
         ELSE /\ pc' = "visualization"
              /\ UNCHANGED << session_state, lastSuccess >>
    /\ UNCHANGED << environment, cache, globals, locals, card, success, viz, chart,
                    ending, calls, predAtStart, memo >>

\* app.py 156: st.rerun() abandons this run and starts the script again.
rerun ==
    /\ pc = "rerun"
    /\ BeginRun("none")
    /\ predAtStart' = Stored
    /\ UNCHANGED << artifacts, exists, cache, widgets, session_state, lastSuccess, memo >>

\* app.py 201-246, and the end of the script
visualization ==
    /\ pc = "visualization"
    /\ IF session_state.pred # None
         THEN /\ pred' = session_state.pred
              /\ viz' = power_level_and_color(session_state.pred[1])
              /\ chart' = session_state.pred
         ELSE UNCHANGED << pred, viz, chart >>
    /\ pc' = "idle"
    /\ outcome' = "complete"
    /\ UNCHANGED << environment, history, cache, session_state, globals, row, X_scaled,
                    card, success, page, error, calls >>

Next ==
    \/ Rerun
    \/ ChangeInput
    \/ ClickPredict
    \/ ClickReset
    \/ UploadArtifact
    \/ DeleteArtifact
    \/ load_artifacts
    \/ init_session_state
    \/ status_container
    \/ read_sidebar
    \/ predict_button
    \/ assemble_row
    \/ scale_row
    \/ infer
    \/ store_prediction
    \/ reset_button
    \/ rerun
    \/ visualization

Spec == Init /\ [][Next]_vars
----
\* Vocabulary of the properties

Low == << "Low", "#ff6b6b" >>
Moderate == << "Moderate", "#f4c542" >>
High == << "High", "#4cd137" >>
NoPredictionYet == << "No prediction yet" >>

\* The nine values of a mapping in the order the model was trained with, the
\* names written out.
InTrainingOrder(vals) ==
    << vals["distance-to-solar-noon"], vals["temperature"], vals["wind-direction"],
       vals["wind-speed"], vals["sky-cover"], vals["visibility"], vals["humidity"],
       vals["average-wind-speed-(period)"], vals["average-pressure-(period)"] >>

\* The level a card or a visualization shows ("" when it shows none).
LevelShown(d) ==
    IF Len(d) = 2 THEN d[1] ELSE ""

\* The run of the script has ended with its last line.
Completed == pc = "idle" /\ outcome = "complete"

\* The Predict handler of this run has stored its value (lines 136-137 are done).
PredictDone == clicked = "predict" /\ success # None

----
\* What the thresholds of the design ask of the pair shown for a value s.
Classified(s, pair) ==
    /\ pair \in {Low, Moderate, High}
    /\ pair = Low <=> s < 2000000
    /\ pair = Moderate <=> (2000000 <= s /\ s < 4000000)
    /\ pair = High <=> s >= 4000000

\* C1: every prediction value the page classifies gets exactly one (level,
\* color) pair: (Low, #ff6b6b) iff it is below 2000, (Moderate, #f4c542) iff
\* it is at least 2000 and below 4000, (High, #4cd137) iff it is at least
\* 4000; 1999.999 is Low, 2000.0 and 3999.999 are Moderate, 4000.0 is High.
\* Checked of the visualization (value chart, pair viz) and of the top card
\* (value predAtStart, pair card).
C1_Classification ==
    /\ chart # None => Classified(chart[1], viz)
    /\ (card # <<>> /\ predAtStart # None) => Classified(predAtStart[1], card)
    /\ chart = << 1999999 >> => viz = Low
    /\ chart = << 2000000 >> => viz = Moderate
    /\ chart = << 3999999 >> => viz = Moderate
    /\ chart = << 4000000 >> => viz = High

\* A page that shows 4000.0 as High in the visualization while the card still
\* shows the 3999.999 of the prediction before as Moderate.
C1_Witness ==
    /\ Completed
    /\ chart = << 4000000 >> /\ viz = High
    /\ predAtStart = << 3999999 >> /\ card = Moderate

\* The value the two artifacts give for the inputs of this run.
ExpectedValue ==
    model_predict(artifacts.model,
                  scaler_transform(artifacts.scaler, InTrainingOrder(user_vals[1])))

\* C2: a Predict hands the scaler the nine input values in FEATURES order,
\* hands the model the scaler's output and nothing else, and shows the model's
\* value with the classification of that value; with the identity scaler and
\* the constant model the value is 2500, Moderate, #f4c542.
C2_PredictPipeline ==
    /\ row # None =>
         /\ Len(row[1]) = 9
         /\ row[1] = InTrainingOrder(user_vals[1])
         /\ user_vals[1] = sidebar_inputs
    /\ X_scaled # None =>
         /\ row # None
         /\ calls.transform = 1
         /\ X_scaled[1] = scaler_transform(artifacts.scaler, row[1])
    /\ calls.predict > 0 => (X_scaled # None /\ calls.transform = 1)
    /\ pc = "store" => pred = << ExpectedValue >>
    /\ PredictDone =>
         /\ success = << ExpectedValue >>
         /\ Stored = success
         /\ Completed => (chart = success /\ viz = power_level_and_color(ExpectedValue))
         /\ (artifacts.scaler = "identity" /\ artifacts.model = "const2500") =>
              /\ success = << 2500000 >>
              /\ Completed => viz = Moderate

\* A completed Predict on edited inputs with the trained artifacts.
C2_Witness ==
    /\ Completed /\ PredictDone
    /\ artifacts.model = "linear"
    /\ widgets[1] # WidgetDefault[1] /\ widgets[2] = WidgetDefault[2]
    /\ success = << 2000000 >>
    /\ viz = Moderate

\* The scaler or the model raises on the inputs vals.
Rejected(vals) ==
    \/ scaler_raises(artifacts.scaler, InTrainingOrder(vals))
    \/ /\ ~scaler_raises(artifacts.scaler, InTrainingOrder(vals))
       /\ model_raises(artifacts.model,
                       scaler_transform(artifacts.scaler, InTrainingOrder(vals)))

InferenceErrors == { "scaler.transform raised", "model.predict raised" }

\* C4: when scaler.transform or model.predict raises during a Predict, the run
\* ends with that exception: neither call is made a second time, no value, level
\* or chart of a result is shown, and the stored prediction is the one the run
\* started with (line 137 writes it only after the model has returned).
C4_InferenceError ==
    /\ (pc = "idle" /\ clicked = "predict" /\ cache # None /\ Rejected(sidebar_inputs)) =>
         /\ outcome = "exception"
         /\ error \in InferenceErrors
    /\ (outcome = "exception" /\ error \in InferenceErrors) =>
         /\ pc = "idle"
         /\ clicked = "predict"
         /\ Stored = predAtStart
         /\ pred = None /\ success = None /\ viz = <<>> /\ chart = None
         /\ calls.transform = 1
         /\ calls.predict <= 1
         /\ error = "scaler.transform raised" => (X_scaled = None /\ calls.predict = 0)
         /\ error = "model.predict raised" => calls.predict = 1
    /\ calls.transform <= 1 /\ calls.predict <= 1
    /\ (pc \in {"assemble", "scale", "infer", "store"}) => Stored = predAtStart

\* The model raised while a prediction of an earlier Predict was stored.
C4_Witness ==
    /\ outcome = "exception"
    /\ error = "model.predict raised"
    /\ predAtStart = << 3999999 >>
    /\ Stored = << 3999999 >>

\* C5: a Predict on the inputs of an earlier successful Predict computes the
\* value that one computed, whatever was clicked or edited in between (memo
\* holds the earlier call; at "store" this run has not touched it yet).
C5_Idempotent ==
    (pc = "store" /\ memo # None /\ memo[1].in = user_vals[1]) =>
        /\ pred = << memo[1].out >>
        /\ power_level_and_color(pred[1]) = power_level_and_color(memo[1].out)

\* The second of two equal calls, made while a different prediction is stored.
C5_Witness ==
    /\ pc = "store"
    /\ memo # None
    /\ memo[1].in = user_vals[1]
    /\ predAtStart # None
    /\ predAtStart # << memo[1].out >>

\* C5 again for a call made after a Reset.
C5_WitnessAfterReset ==
    /\ pc = "store"
    /\ memo # None
    /\ memo[1].in = user_vals[1]
    /\ predAtStart = None

\* The positions of the Predict handler, lines 130-151.
HandlerSteps == { "assemble", "scale", "infer", "store" }

\* C6: a Predict changes nothing that outlives the call.  As claimed: no step of
\* the handler (lines 130-151) changes the artifacts, their cache, the inputs or
\* the session state.
C6_NoSharedStateWritten ==
    [][ (pc \in HandlerSteps) =>
          UNCHANGED << artifacts, exists, cache, widgets, model, scaler, user_vals,
                       session_state >> ]_vars

\* C6 as the code has it: the handler leaves the artifacts, their cache and the
\* inputs alone, and the one thing it writes that outlives the call is
\* st.session_state.pred, which line 137 overwrites with the value computed.
C6_WritesOnlyStoredPrediction ==
    [][ (pc \in HandlerSteps) =>
          /\ UNCHANGED << artifacts, exists, cache, widgets, model, scaler, user_vals >>
          /\ session_state' # session_state =>
               /\ pc = "store"
               /\ DOMAIN session_state' = DOMAIN session_state
               /\ session_state'.pred = pred
               /\ pred # None ]_vars

\* Line 137 has replaced the prediction of an earlier Predict by a different one.
C6_Witness ==
    /\ pc = "reset_button"
    /\ PredictDone
    /\ predAtStart # None
    /\ Stored # predAtStart

\* C7: a prediction lives for one run only.  As claimed: a run that was not
\* started by a click on Predict shows no prediction: no chart, no level in the
\* visualization, no level in the top card.
C7_NoPersistence ==
    (pc = "idle" /\ clicked # "predict") =>
        (chart = None /\ viz = <<>> /\ LevelShown(card) = "")

\* C7 as the code has it: a successful Predict stores its fresh value in the
\* session state, and a later run without a click finds it there and shows it, in
\* the card and in the visualization, even after the inputs were edited.
C7_PersistsAcrossRuns ==
    /\ PredictDone => (Stored = success /\ success = pred)
    /\ (Completed /\ clicked = "none") =>
         /\ success = None
         /\ Stored = predAtStart
         /\ chart = predAtStart
         /\ predAtStart # None =>
              /\ viz = power_level_and_color(predAtStart[1])
              /\ card = viz
         /\ predAtStart = None => (viz = <<>> /\ card = NoPredictionYet)

\* A run started by editing the temperature still shows the 1999.999 predicted
\* for the inputs as they were before.
C7_Witness ==
    /\ Completed /\ clicked = "none"
    /\ artifacts.model = "linear"
    /\ widgets[2] = WidgetMax[2]
    /\ chart = << 1999999 >>
    /\ viz = Low /\ card = Low

EitherAbsent == ModelPath \notin exists \/ ScalerPath \notin exists

\* What holds of a run stopped by load_artifacts, and of every call of the artifacts.
C8_StoppedRun ==
    /\ outcome = "stopped" =>
         /\ pc = "idle"
         /\ error = "Model or scaler file missing"
         /\ cache = None /\ model = None /\ scaler = None
         /\ user_vals = None /\ page = {} /\ card = <<>>
         /\ row = None /\ X_scaled = None /\ pred = None
         /\ calls = NoCalls
    /\ (calls.transform > 0 \/ calls.predict > 0 \/ pc \in HandlerSteps) =>
         /\ cache = << [model |-> artifacts.model, scaler |-> artifacts.scaler] >>
         /\ model = << artifacts.model >>
         /\ scaler = << artifacts.scaler >>
    /\ (pc \notin {"idle", "load"}) => cache # None

\* C8: a run that finds best_model.pkl or scaler.pkl absent when load_artifacts
\* has nothing cached reports the error and stops: nothing is loaded or cached,
\* no input is read, no widget drawn, scaler.transform and model.predict are not
\* called; they are only ever called with both artifacts loaded.
C8_FatalStartup ==
    /\ []C8_StoppedRun
    /\ [][ /\ (pc = "load" /\ cache = None /\ EitherAbsent) =>
                (pc' = "idle" /\ outcome' = "stopped" /\ cache' = None)
           /\ cache' # cache =>
                (pc = "load" /\ cache = None /\ exists = {ModelPath, ScalerPath}) ]_vars

\* A run stopped because only the model file was there.
C8_Witness ==
    /\ pc = "idle" /\ outcome = "stopped"
    /\ exists = {ModelPath}
    /\ error = "Model or scaler file missing"

\* A run of the script has ended: with its last line, with an exception, with
\* st.stop(), or it stands at the st.rerun() of line 156.
RunEnded == (pc = "idle" /\ outcome # "none") \/ pc = "rerun"

C9_WitnessReset ==
    /\ pc = "rerun"
    /\ card = Moderate
    /\ viz = <<>>

\* The state part and the step part of C10.
C10_State ==
    /\ Stored = lastSuccess
    /\ (pc = "idle" /\ outcome = "none") => Stored = None
    /\ (pc = "idle" /\ outcome \in {"complete", "exception"} /\ Stored = None) =>
         (card = NoPredictionYet /\ viz = <<>> /\ chart = None)
    /\ (Completed /\ clicked # "predict") =>
         /\ Stored = predAtStart
         /\ LevelShown(viz) = (IF predAtStart # None
                                 THEN power_level_and_color(predAtStart[1])[1] ELSE "")
    /\ pc = "rerun" => Stored = None

C10_Step ==
    /\ (pc = "reset_button" /\ clicked = "reset") =>
         /\ session_state' = [pred |-> None]
         /\ pc' = "rerun"
         /\ UNCHANGED << widgets, cache, artifacts, exists >>
    /\ pc = "rerun" =>
         (pc' = "load" /\ clicked' = "none" /\ UNCHANGED << widgets, session_state >>)
    /\ pc # "idle" => widgets' = widgets
    /\ Stored' # Stored =>
         \/ pc = "store" /\ Stored' = pred /\ pred # None
         \/ pc = "reset_button" /\ clicked = "reset" /\ Stored' = None

AllKeysPresent ==
    /\ user_vals # None => DOMAIN user_vals[1] = FeatureNames
    /\ error # "KeyError"

====
